---- MODULE Spec2Model ----
(***************************************************************************)
(* Model of src/main.py: students, lecturers and reviewers who rate each   *)
(* other within named courses, and the average-grade helper functions.     *)
(*                                                                         *)
(* Python values are modelled as follows.                                  *)
(*   - lists are sequences; a dict is a function whose DOMAIN is its keys; *)
(*   - None is the string "None", True/False are "True"/"False", so that a *)
(*     comparison method can return either a boolean or "COMPARE ERROR";   *)
(*   - the quotient sum(xs) / len(xs) is the exact rational, kept as a     *)
(*     fraction <<n, d>> in lowest terms with d > 0.  Within the bounds    *)
(*     below two quotients are equal (ordered) as Python floats exactly    *)
(*     when the fractions are equal (ordered).                             *)
(***************************************************************************)
EXTENDS Integers, Sequences, FiniteSets, TLC

\* ---------------------------------------------------------------- bounds
MaxCalls == 5        \* number of add/rate calls made in one behaviour
MaxLen == 2          \* longest grade list passed to the helper functions
MaxMembers == 2      \* longest collection passed to the helper functions
MaxHw == 3           \* most homework grades of a student when compared

\* ------------------------------------------------------------- universe
Students == {"s1", "s2"}
Lecturers == {"l1"}
Reviewers == {"r1"}
Mentors == Lecturers \cup Reviewers
Graded == Students \cup Lecturers
Values == Students \cup Mentors \cup {"None"}
LecturerArgs == Lecturers \cup Reviewers \cup {"s1"}
StudentArgs == Students \cup Lecturers
Courses == {"Python", "GIT"}
Grades == {-1, 0, 10, 11}
HwGrades == {-1, 11}
AvgGrades == {8, 9}
CmpGrades == {-1, 11}

VARIABLES finished_courses, courses_in_progress, courses_attached, grades,
          ret, ncalls, call, avg

vars == <<finished_courses, courses_in_progress, courses_attached, grades,
          ret, ncalls, call, avg>>
entityVars == <<finished_courses, courses_in_progress, courses_attached, grades>>

\* ---------------------------------------------------------- Python basics
Range(seq) == {seq[i] : i \in 1..Len(seq)}

EmptyDict == [k \in {} |-> <<>>]

Abs(n) == IF n < 0 THEN -n ELSE n

RECURSIVE GCD(_, _)
GCD(a, b) == IF b = 0 THEN a ELSE GCD(b, a % b)

\* int / int (true division)
TrueDiv(n, d) ==
    LET g == GCD(Abs(n), d) IN <<n \div g, d \div g>>

Zero == <<0, 1>>

NumLess(x, y) == x[1] * y[2] < y[1] * x[2]

PyBool(b) == IF b THEN "True" ELSE "False"

Truthy(v) == v \notin {"False", "None"}

RECURSIVE sum(_)
sum(xs) == IF xs = <<>> THEN 0 ELSE xs[1] + sum(Tail(xs))

\* list.append(x) when x is not in the list
AppendIfAbsent(list, x) == IF x \notin Range(list) THEN Append(list, x) ELSE list

\* variant: the grade replaces the list instead of extending it
AddGrade_Overwrite(d, k, v) ==
    [j \in DOMAIN d \cup {k} |-> IF j = k THEN <<v>> ELSE d[j]]

\* d[k] += [v] if k in d else d[k] = [v]
AddGrade(d, k, v) ==
    IF k \in DOMAIN d
    THEN [d EXCEPT ![k] = @ \o <<v>>]
    ELSE [j \in DOMAIN d \cup {k} |-> IF j = k THEN <<v>> ELSE d[j]]

\* ------------------------------------------------------ aggregation helpers
RECURSIVE ExtendValues(_, _)
ExtendValues(d, keys) ==
    IF keys = {} THEN <<>>
    ELSE LET k == CHOOSE x \in keys : TRUE
         IN d[k] \o ExtendValues(d, keys \ {k})

\* variant: the sum is divided by the number of courses
own_average_grade_PerCourse(grades_dict) ==
    LET all_grades == ExtendValues(grades_dict, DOMAIN grades_dict)
    IN IF all_grades # <<>>
       THEN TrueDiv(sum(all_grades), Cardinality(DOMAIN grades_dict))
       ELSE Zero

own_average_grade(grades_dict) ==
    LET all_grades == ExtendValues(grades_dict, DOMAIN grades_dict)
    IN IF all_grades # <<>>
       THEN TrueDiv(sum(all_grades), Len(all_grades))
       ELSE Zero

RECURSIVE CourseGrades(_, _)
CourseGrades(members, course) ==
    IF members = <<>> THEN <<>>
    ELSE (IF course \in DOMAIN members[1].grades
          THEN members[1].grades[course] ELSE <<>>)
         \o CourseGrades(Tail(members), course)

\* variant: the grades of every course of a member are taken
RECURSIVE EveryGrade(_)
EveryGrade(members) ==
    IF members = <<>> THEN <<>>
    ELSE ExtendValues(members[1].grades, DOMAIN members[1].grades)
         \o EveryGrade(Tail(members))

students_average_grade_AnyCourse(students_list, course) ==
    LET all_grades == EveryGrade(students_list)
    IN IF all_grades # <<>>
       THEN TrueDiv(sum(all_grades), Len(all_grades))
       ELSE Zero

students_average_grade(students_list, course) ==
    LET all_grades == CourseGrades(students_list, course)
    IN IF all_grades # <<>>
       THEN TrueDiv(sum(all_grades), Len(all_grades))
       ELSE Zero

mentors_average_grade(lecturers_list, course) ==
    LET all_grades == CourseGrades(lecturers_list, course)
    IN IF all_grades # <<>>
       THEN TrueDiv(sum(all_grades), Len(all_grades))
       ELSE Zero

\* ------------------------------------------------------------- comparisons
Student__eq__(self, other) ==
    IF other \notin Students THEN "COMPARE ERROR"
    ELSE PyBool(own_average_grade(grades[self]) = own_average_grade(grades[other]))

\* variant: the sums of the grades are compared, not their means
Student__lt__BySum(self, other) ==
    IF other \notin Students THEN "COMPARE ERROR"
    ELSE PyBool(sum(ExtendValues(grades[self], DOMAIN grades[self]))
                < sum(ExtendValues(grades[other], DOMAIN grades[other])))

Student__lt__(self, other) ==
    IF other \notin Students THEN "COMPARE ERROR"
    ELSE PyBool(NumLess(own_average_grade(grades[self]), own_average_grade(grades[other])))

\* object.__ne__: the truth value of __eq__, inverted
Student__ne__(self, other) == PyBool(~Truthy(Student__eq__(self, other)))

\* functools.total_ordering, from __lt__
Student__le__(self, other) ==
    LET op_result == Student__lt__(self, other)
    IN IF Truthy(op_result) THEN op_result ELSE Student__eq__(self, other)

Student__gt__(self, other) ==
    LET op_result == Student__lt__(self, other)
    IN IF Truthy(op_result) THEN "False" ELSE Student__ne__(self, other)

Student__ge__(self, other) ==
    LET op_result == Student__lt__(self, other)
    IN PyBool(~Truthy(op_result))

Lecturer__eq__(self, other) ==
    IF other \notin Lecturers THEN "COMPARE ERROR"
    ELSE PyBool(own_average_grade(grades[self]) = own_average_grade(grades[other]))

Lecturer__lt__(self, other) ==
    IF other \notin Lecturers THEN "COMPARE ERROR"
    ELSE PyBool(NumLess(own_average_grade(grades[self]), own_average_grade(grades[other])))

Lecturer__ne__(self, other) == PyBool(~Truthy(Lecturer__eq__(self, other)))

Lecturer__le__(self, other) ==
    LET op_result == Lecturer__lt__(self, other)
    IN IF Truthy(op_result) THEN op_result ELSE Lecturer__eq__(self, other)

Lecturer__gt__(self, other) ==
    LET op_result == Lecturer__lt__(self, other)
    IN IF Truthy(op_result) THEN "False" ELSE Lecturer__ne__(self, other)

Lecturer__ge__(self, other) ==
    LET op_result == Lecturer__lt__(self, other)
    IN PyBool(~Truthy(op_result))

\* ------------------------------------------------------------------- state
NoCall == [fn |-> "none", grades_dict |-> EmptyDict, members |-> <<>>, course |-> "None"]
AllCourses == <<"Python", "GIT">>

Init ==
    /\ finished_courses = [s \in Students |-> <<>>]
    /\ courses_in_progress = [s \in Students |-> <<>>]
    /\ courses_attached = [m \in Mentors |-> <<>>]
    /\ grades = [e \in Graded |-> EmptyDict]
    /\ ret = "None"
    /\ ncalls = 0
    /\ call = NoCall
    /\ avg = Zero

\* ------------------------------------------------------------- operations
\* variant: the course is appended without the membership test
add_finished_course_Always(self, course) ==
    /\ ncalls < MaxCalls
    /\ ncalls' = ncalls + 1
    /\ finished_courses' = [finished_courses EXCEPT ![self] = Append(@, course)]
    /\ ret' = "None"
    /\ UNCHANGED <<courses_in_progress, courses_attached, grades, call, avg>>

add_finished_course(self, course) ==
    /\ ncalls < MaxCalls
    /\ ncalls' = ncalls + 1
    /\ finished_courses' = [finished_courses EXCEPT ![self] = AppendIfAbsent(@, course)]
    /\ ret' = IF course \notin Range(finished_courses[self])
              THEN "None" ELSE "add_finished_course ERROR"
    /\ UNCHANGED <<courses_in_progress, courses_attached, grades, call, avg>>

add_courses_in_progress(self, course) ==
    /\ ncalls < MaxCalls
    /\ ncalls' = ncalls + 1
    /\ courses_in_progress' = [courses_in_progress EXCEPT ![self] = AppendIfAbsent(@, course)]
    /\ ret' = IF course \notin Range(courses_in_progress[self])
              THEN "None" ELSE "add_courses_in_progress ERROR"
    /\ UNCHANGED <<finished_courses, courses_attached, grades, call, avg>>

\* variant: the duplicate is signalled and appended all the same
mentor_add_course_Always(self, course) ==
    /\ ncalls < MaxCalls
    /\ ncalls' = ncalls + 1
    /\ courses_attached' = [courses_attached EXCEPT ![self] = Append(@, course)]
    /\ ret' = IF course \notin Range(courses_attached[self])
              THEN "None" ELSE "mentor_add_course ERROR"
    /\ UNCHANGED <<finished_courses, courses_in_progress, grades, call, avg>>

mentor_add_course(self, course) ==
    /\ ncalls < MaxCalls
    /\ ncalls' = ncalls + 1
    /\ courses_attached' = [courses_attached EXCEPT ![self] = AppendIfAbsent(@, course)]
    /\ ret' = IF course \notin Range(courses_attached[self])
              THEN "None" ELSE "mentor_add_course ERROR"
    /\ UNCHANGED <<finished_courses, courses_in_progress, grades, call, avg>>

\* variant: the range of the grade is not tested
rate_lecture_NoRange(self, lecturer, course, grade) ==
    /\ ncalls < MaxCalls
    /\ ncalls' = ncalls + 1
    /\ IF /\ lecturer \in Lecturers
          /\ course \in Range(courses_attached[lecturer])
          /\ course \in Range(courses_in_progress[self])
       THEN /\ ret' = "None"
            /\ grades' = [grades EXCEPT ![lecturer] = AddGrade(@, course, grade)]
       ELSE /\ ret' = "ERROR!"
            /\ grades' = grades
    /\ UNCHANGED <<finished_courses, courses_in_progress, courses_attached, call, avg>>

\* variant: the lecturer's attachment to the course is not tested
rate_lecture_NoAttachment(self, lecturer, course, grade) ==
    /\ ncalls < MaxCalls
    /\ ncalls' = ncalls + 1
    /\ IF /\ lecturer \in Lecturers
          /\ course \in Range(courses_in_progress[self])
          /\ 0 <= grade /\ grade <= 10
       THEN /\ ret' = "None"
            /\ grades' = [grades EXCEPT ![lecturer] = AddGrade(@, course, grade)]
       ELSE /\ ret' = "ERROR!"
            /\ grades' = grades
    /\ UNCHANGED <<finished_courses, courses_in_progress, courses_attached, call, avg>>

rate_lecture(self, lecturer, course, grade) ==
    /\ ncalls < MaxCalls
    /\ ncalls' = ncalls + 1
    /\ IF /\ lecturer \in Lecturers
          /\ course \in Range(courses_attached[lecturer])
          /\ course \in Range(courses_in_progress[self])
          /\ 0 <= grade /\ grade <= 10
       THEN /\ ret' = "None"
            /\ grades' = [grades EXCEPT ![lecturer] = AddGrade(@, course, grade)]
       ELSE /\ ret' = "ERROR!"
            /\ grades' = grades
    /\ UNCHANGED <<finished_courses, courses_in_progress, courses_attached, call, avg>>

\* variant: the grade is clamped to 0..10 before it is stored
rate_hw_Clamped(self, student, course, grade) ==
    /\ ncalls < MaxCalls
    /\ ncalls' = ncalls + 1
    /\ IF /\ student \in Students
          /\ course \in Range(courses_attached[self])
          /\ course \in Range(courses_in_progress[student])
       THEN /\ ret' = "None"
            /\ grades' = [grades EXCEPT ![student] =
                    AddGrade(@, course, IF grade < 0 THEN 0 ELSE IF grade > 10 THEN 10 ELSE grade)]
       ELSE /\ ret' = "rate_hw function ERROR"
            /\ grades' = grades
    /\ UNCHANGED <<finished_courses, courses_in_progress, courses_attached, call, avg>>

rate_hw(self, student, course, grade) ==
    /\ ncalls < MaxCalls
    /\ ncalls' = ncalls + 1
    /\ IF /\ student \in Students
          /\ course \in Range(courses_attached[self])
          /\ course \in Range(courses_in_progress[student])
       THEN /\ ret' = "None"
            /\ grades' = [grades EXCEPT ![student] = AddGrade(@, course, grade)]
       ELSE /\ ret' = "rate_hw function ERROR"
            /\ grades' = grades
    /\ UNCHANGED <<finished_courses, courses_in_progress, courses_attached, call, avg>>

Next ==
    \/ \E s \in Students, c \in Courses : add_finished_course(s, c)
    \/ \E s \in Students, c \in Courses : add_courses_in_progress(s, c)
    \/ \E m \in Mentors, c \in Courses : mentor_add_course(m, c)
    \/ \E s \in Students, l \in LecturerArgs, c \in Courses, g \in Grades : rate_lecture(s, l, c, g)
    \/ \E r \in Reviewers, s \in StudentArgs, c \in Courses, g \in HwGrades : rate_hw(r, s, c, g)

Spec == Init /\ [][Next]_vars

\* ------------------------------------------- calls of the helper functions
\* The helpers are pure, so one call per behaviour covers every input.
RECURSIVE CountValues(_, _)
CountValues(d, keys) ==
    IF keys = {} THEN 0
    ELSE LET k == CHOOSE x \in keys : TRUE
         IN Len(d[k]) + CountValues(d, keys \ {k})

GradeLists == UNION {[1..n -> AvgGrades] : n \in 0..MaxLen}
GradeMaps == UNION {[D -> GradeLists] : D \in SUBSET Courses}
\* a member of a collection holds at most MaxLen grades in all
Members == [grades : {d \in GradeMaps : CountValues(d, DOMAIN d) <= MaxLen}]
MemberLists == UNION {[1..n -> Members] : n \in 0..MaxMembers}

call_own_average_grade(grades_dict) ==
    /\ call = NoCall
    /\ call' = [fn |-> "own_average_grade", grades_dict |-> grades_dict,
                members |-> <<>>, course |-> "None"]
    /\ avg' = own_average_grade(grades_dict)
    /\ UNCHANGED <<entityVars, ret, ncalls>>

call_students_average_grade(students_list, course) ==
    /\ call = NoCall
    /\ call' = [fn |-> "students_average_grade", grades_dict |-> EmptyDict,
                members |-> students_list, course |-> course]
    /\ avg' = students_average_grade(students_list, course)
    /\ UNCHANGED <<entityVars, ret, ncalls>>

call_mentors_average_grade(lecturers_list, course) ==
    /\ call = NoCall
    /\ call' = [fn |-> "mentors_average_grade", grades_dict |-> EmptyDict,
                members |-> lecturers_list, course |-> course]
    /\ avg' = mentors_average_grade(lecturers_list, course)
    /\ UNCHANGED <<entityVars, ret, ncalls>>

NextAvg ==
    \/ call = NoCall /\ \E G \in GradeMaps : call_own_average_grade(G)
    \/ call = NoCall /\ \E l \in MemberLists, c \in Courses : call_students_average_grade(l, c)
    \/ call = NoCall /\ \E l \in MemberLists, c \in Courses : call_mentors_average_grade(l, c)

SpecAvg == Init /\ [][NextAvg]_vars

\* --------------------------------------------------- comparing two students
\* Two students in progress on both courses, graded by a reviewer attached to
\* both: every such state is reached by add_courses_in_progress,
\* mentor_add_course and rate_hw calls.  A comparison reads the state only,
\* so one comparison per behaviour covers every state and operator.
HwLists == UNION {[1..n -> CmpGrades] : n \in 1..MaxHw}
HwMaps == {d \in UNION {[D -> HwLists] : D \in SUBSET Courses} :
              CountValues(d, DOMAIN d) <= MaxHw}
CompareOps == {"__eq__", "__ne__", "__lt__", "__le__", "__gt__", "__ge__"}

InitCmp ==
    /\ finished_courses = [s \in Students |-> <<>>]
    /\ courses_in_progress = [s \in Students |-> AllCourses]
    /\ courses_attached = [m \in Mentors |-> IF m \in Reviewers THEN AllCourses ELSE <<>>]
    /\ grades \in [Graded -> HwMaps]
    /\ \A l \in Lecturers : grades[l] = EmptyDict
    /\ ret = "None"
    /\ ncalls = 0
    /\ call = NoCall
    /\ avg = Zero

compare(op, self, other) ==
    /\ call = NoCall
    /\ call' = [fn |-> op, grades_dict |-> EmptyDict, members |-> <<self, other>>,
                course |-> "None"]
    /\ ret' = CASE op = "__eq__" -> Student__eq__(self, other)
                [] op = "__ne__" -> Student__ne__(self, other)
                [] op = "__lt__" -> Student__lt__(self, other)
                [] op = "__le__" -> Student__le__(self, other)
                [] op = "__gt__" -> Student__gt__(self, other)
                [] op = "__ge__" -> Student__ge__(self, other)
    /\ UNCHANGED <<entityVars, ncalls, avg>>

NextCmp ==
    call = NoCall /\ \E op \in CompareOps, a \in Students, b \in Students : compare(op, a, b)

SpecCmp == InitCmp /\ [][NextCmp]_vars

\* ================================================================ claims
\* Helpers of the claims: sums and counts taken index by index.
RECURSIVE SeqTotal(_, _)
SeqTotal(xs, n) == IF n = 0 THEN 0 ELSE xs[n] + SeqTotal(xs, n - 1)

RECURSIVE MapTotal(_, _)
MapTotal(d, keys) ==
    IF keys = {} THEN 0
    ELSE LET k == CHOOSE x \in keys : TRUE
         IN SeqTotal(d[k], Len(d[k])) + MapTotal(d, keys \ {k})

RECURSIVE MapCount(_, _)
MapCount(d, keys) ==
    IF keys = {} THEN 0
    ELSE LET k == CHOOSE x \in keys : TRUE
         IN Len(d[k]) + MapCount(d, keys \ {k})

\* q is the mean of `count` numbers adding up to `total`; 0 when there are none
IsMean(q, total, count) ==
    IF count = 0 THEN q[1] = 0 /\ q[2] = 1
    ELSE q[2] > 0 /\ q[1] * count = q[2] * total

IsPrefix(xs, ys) == Len(xs) <= Len(ys) /\ \A i \in 1..Len(xs) : xs[i] = ys[i]

NoDuplicates(list) == \A i, j \in 1..Len(list) : list[i] = list[j] => i = j

\* d2 is d with v appended to the list of k (a new list when k had none)
GradeAppended(d, d2, k, v) ==
    /\ DOMAIN d2 = DOMAIN d \cup {k}
    /\ d2[k] = (IF k \in DOMAIN d THEN d[k] ELSE <<>>) \o <<v>>
    /\ \A j \in DOMAIN d \ {k} : d2[j] = d[j]

\* C1: rate_lecture changes the lecturer's grade map (appending the grade to
\* the course's list) exactly when the value passed is a Lecturer, the course
\* is attached to it, the course is in progress for the student and
\* 0 <= grade <= 10; then it returns None, otherwise it returns the error
\* string and no grade map changes.
C1_RateLectureGate ==
    [][\A S \in Students, L \in LecturerArgs, c \in Courses, g \in Grades :
        rate_lecture(S, L, c, g) =>
            LET ok == /\ L \in Lecturers
                      /\ c \in Range(courses_attached[L])
                      /\ c \in Range(courses_in_progress[S])
                      /\ g >= 0 /\ g <= 10
            IN IF ok
               THEN /\ ret' = "None"
                    /\ grades' # grades
                    /\ GradeAppended(grades[L], grades'[L], c, g)
                    /\ \A e \in Graded \ {L} : grades'[e] = grades[e]
               ELSE /\ ret' = "ERROR!"
                    /\ grades' = grades]_vars

\* the spec's example: after a valid and then an out-of-range rating the
\* lecturer's list holds the valid grade only and the last call signalled
C1_Witness ==
    /\ "Python" \in DOMAIN grades["l1"]
    /\ grades["l1"]["Python"] = <<10>>
    /\ ret = "ERROR!"

\* C2: rate_hw changes the student's grade map exactly when the value passed
\* is a Student, the course is attached to the reviewer and in progress for
\* the student; the grade is then appended as given, whatever its value, and
\* otherwise the error string is returned and no grade map changes.
C2_RateHwGate ==
    [][\A R \in Reviewers, S \in StudentArgs, c \in Courses, g \in HwGrades :
        rate_hw(R, S, c, g) =>
            LET ok == /\ S \in Students
                      /\ c \in Range(courses_attached[R])
                      /\ c \in Range(courses_in_progress[S])
            IN IF ok
               THEN /\ ret' = "None"
                    /\ grades' # grades
                    /\ GradeAppended(grades[S], grades'[S], c, g)
                    /\ \A e \in Graded \ {S} : grades'[e] = grades[e]
               ELSE /\ ret' = "rate_hw function ERROR"
                    /\ grades' = grades]_vars

\* an out-of-range grade stored verbatim, and a later call rejected
C2_Witness ==
    /\ "GIT" \in DOMAIN grades["s2"]
    /\ grades["s2"]["GIT"] = <<11, -1>>
    /\ ret = "rate_hw function ERROR"

\* C3: each add operation leaves its list unchanged and returns its
\* duplicate signal when the course is already in the list, and appends the
\* course at the end and returns None when it is absent.
C3_AddIfAbsent ==
    [][/\ \A s \in Students, c \in Courses :
            add_finished_course(s, c) =>
                IF c \in Range(finished_courses[s])
                THEN /\ finished_courses'[s] = finished_courses[s]
                     /\ ret' = "add_finished_course ERROR"
                ELSE /\ finished_courses'[s] = finished_courses[s] \o <<c>>
                     /\ ret' = "None"
       /\ \A s \in Students, c \in Courses :
            add_courses_in_progress(s, c) =>
                IF c \in Range(courses_in_progress[s])
                THEN /\ courses_in_progress'[s] = courses_in_progress[s]
                     /\ ret' = "add_courses_in_progress ERROR"
                ELSE /\ courses_in_progress'[s] = courses_in_progress[s] \o <<c>>
                     /\ ret' = "None"
       /\ \A m \in Mentors, c \in Courses :
            mentor_add_course(m, c) =>
                IF c \in Range(courses_attached[m])
                THEN /\ courses_attached'[m] = courses_attached[m]
                     /\ ret' = "mentor_add_course ERROR"
                ELSE /\ courses_attached'[m] = courses_attached[m] \o <<c>>
                     /\ ret' = "None"]_vars

\* a second add of a course already in a two-course list was refused
C3_Witness ==
    /\ finished_courses["s1"] = <<"GIT", "Python">>
    /\ ret = "add_finished_course ERROR"

\* C4: comparing a Student with a non-Student, or a Lecturer with a
\* non-Lecturer, yields "COMPARE ERROR" under each of ==, !=, <, <=, >, >=.
C4_CompareErrorEveryOperator ==
    /\ \A s \in Students, v \in Values \ Students :
        /\ Student__eq__(s, v) = "COMPARE ERROR"
        /\ Student__ne__(s, v) = "COMPARE ERROR"
        /\ Student__lt__(s, v) = "COMPARE ERROR"
        /\ Student__le__(s, v) = "COMPARE ERROR"
        /\ Student__gt__(s, v) = "COMPARE ERROR"
        /\ Student__ge__(s, v) = "COMPARE ERROR"
    /\ \A l \in Lecturers, v \in Values \ Lecturers :
        /\ Lecturer__eq__(l, v) = "COMPARE ERROR"
        /\ Lecturer__ne__(l, v) = "COMPARE ERROR"
        /\ Lecturer__lt__(l, v) = "COMPARE ERROR"
        /\ Lecturer__le__(l, v) = "COMPARE ERROR"
        /\ Lecturer__gt__(l, v) = "COMPARE ERROR"
        /\ Lecturer__ge__(l, v) = "COMPARE ERROR"

\* C5: own_average_grade(G) is the sum of all grades of all lists of G
\* divided by their number, and 0 when G has no grade at all.
C5_OwnAverageIsMean ==
    call.fn = "own_average_grade" =>
        LET G == call.grades_dict
        IN IsMean(avg, MapTotal(G, DOMAIN G), MapCount(G, DOMAIN G))

\* a map with grades under two courses: (9 + 8 + 8) / 3
C5_Witness ==
    /\ call.fn = "own_average_grade"
    /\ DOMAIN call.grades_dict = {"Python", "GIT"}
    /\ call.grades_dict["Python"] = <<9, 8>>
    /\ call.grades_dict["GIT"] = <<8>>
    /\ avg = <<25, 3>>

\* C6: students_average_grade and mentors_average_grade return the mean of
\* the course's lists of the members that have an entry for the course, and
\* 0 when there is no such grade; other members and other courses do not
\* count.
C6_CourseAverageIsMean ==
    call.fn \in {"students_average_grade", "mentors_average_grade"} =>
        LET c == call.course
            having == {i \in 1..Len(call.members) : c \in DOMAIN call.members[i].grades}
            lists == [i \in having |-> call.members[i].grades[c]]
        IN IsMean(avg, MapTotal(lists, having), MapCount(lists, having))

\* the spec's example, the second student holding grades of another course
C6_Witness ==
    /\ call.fn = "students_average_grade"
    /\ call.course = "Python"
    /\ Len(call.members) = 2
    /\ DOMAIN call.members[1].grades = {"Python"}
    /\ call.members[1].grades["Python"] = <<9, 8>>
    /\ DOMAIN call.members[2].grades = {"GIT"}
    /\ call.members[2].grades["GIT"] = <<9, 9>>
    /\ avg = <<17, 2>>

\* C7: students are ordered by the mean of all their homework grades, taken
\* across courses (0 without grades): < and == are exactly the strict order
\* and the equality of these means, >, <= and >= agree with them, and exactly
\* one of <, ==, > holds.
StudentTotal(s) == MapTotal(grades[s], DOMAIN grades[s])
StudentCount(s) == IF MapCount(grades[s], DOMAIN grades[s]) = 0 THEN 1
                   ELSE MapCount(grades[s], DOMAIN grades[s])
MeanBelow(a, b) == StudentTotal(a) * StudentCount(b) < StudentTotal(b) * StudentCount(a)
MeanSame(a, b) == StudentTotal(a) * StudentCount(b) = StudentTotal(b) * StudentCount(a)

C8_CourseListsUnique ==
    /\ \A s \in Students : NoDuplicates(finished_courses[s])
    /\ \A s \in Students : NoDuplicates(courses_in_progress[s])
    /\ \A m \in Mentors : NoDuplicates(courses_attached[m])

\* a mentor holding both courses was asked to add one of them again
C8_Witness ==
    /\ Len(courses_attached["r1"]) = 2
    /\ ret = "mentor_add_course ERROR"

\* C9: grade maps are append-only: a step keeps every entry of every grade
\* map, and the list it had is a prefix of the list it has afterwards.
C9_GradesAppendOnly ==
    [][\A e \in Graded :
        /\ DOMAIN grades[e] \subseteq DOMAIN grades'[e]
        /\ \A c \in DOMAIN grades[e] : IsPrefix(grades[e][c], grades'[e][c])]_vars

\* the spec's example: two successive ratings kept in call order
C9_Witness ==
    /\ "Python" \in DOMAIN grades["s1"]
    /\ grades["s1"]["Python"] = <<11, -1>>

\* C10: a course with an entry in a lecturer's grade map is attached to the
\* lecturer, and its list is non-empty with grades in 0..10; a course with an
\* entry in a student's grade map is in progress for the student, and its
\* list is non-empty.
C10_GradeEntriesJustified ==
    /\ \A l \in Lecturers : \A c \in DOMAIN grades[l] :
        /\ c \in Range(courses_attached[l])
        /\ grades[l][c] # <<>>
        /\ \A i \in 1..Len(grades[l][c]) : grades[l][c][i] \in 0..10
    /\ \A s \in Students : \A c \in DOMAIN grades[s] :
        /\ c \in Range(courses_in_progress[s])
        /\ grades[s][c] # <<>>

\* both a lecturer and a student hold a grade
C10_Witness ==
    /\ DOMAIN grades["l1"] # {}
    /\ DOMAIN grades["s1"] # {}
====
